---------------------------- MODULE Spec2Model ----------------------------
(***************************************************************************)
(* A model of src/exiftool.go: the Session that drives a stay-open         *)
(* exiftool subprocess (Open, splitReadyToken, ReadMetadata, Close) and    *)
(* the Metadata Record built from one framed JSON record (Parse) with its  *)
(* date accessors (GetTime, GetEarliestCreationDate).                      *)
(*                                                                         *)
(* Bytes are one-character strings; a byte slice is a sequence of them.    *)
(***************************************************************************)
EXTENDS Integers, Sequences, FiniteSets, TLC

VARIABLES
    \* ---- Session (ExiftoolConfig, ExiftoolIO, the callers, the subprocess)
    readyToken,   \* et.config.readyToken, set by UseDefaults from runtime.GOOS
    lock,         \* et.io.lock: 0 when free, else the caller holding it
    pc,           \* pc[p]: where caller p stands in ReadMetadata / Close
    call,         \* call[p]: the running call of p: op, file, write index, meta, errs
    result,       \* result[p]: what p's last returned call returned
    stdinData,    \* the bytes the subprocess's stdin has received, as written
    stdinClosed,  \* et.io.stdin was closed
    outClosed,    \* et.io.stdMergedOut (the pipe's read end) was closed
    procAlive,    \* the exiftool subprocess is running
    pipe,         \* bytes the subprocess has emitted that no Read has taken yet
    sc,           \* et.io.scanMergedOut: the bufio.Scanner's fields
    hist,         \* history: counters of calls, locks and emissions, the blocks
                  \* emitted as answers, the call that closed the pipes
    \* ---- splitReadyToken applied to bounded streams
    fr,
    \* ---- Parse applied to bounded inputs
    pr,
    \* ---- GetTime and GetEarliestCreationDate applied to bounded records
    dt

sessionVars == <<lock, pc, call, result, stdinData, stdinClosed, outClosed,
                 procAlive, pipe, sc, hist>>
vars == <<readyToken, sessionVars, fr, pr, dt>>

(***************************************************************************)
(* Bounds of the model.                                                    *)
(***************************************************************************)
MaxFrags == 3        \* fragments a framing stream is made of
MaxJsonToks == 5     \* lexical pieces a Parse input is made of
MaxAgainLen == 4     \* bytes of the input of a second Parse on one record
MaxCalls == 2        \* calls of ReadMetadata and Close, all callers together
MaxEmit == 1         \* pieces of output the subprocess emits
MaxDateFields == 2   \* fields a record holds when its dates are read
MaxSerialCalls == 3  \* calls one caller makes, one after the other
NumCallers == 2      \* goroutines calling ReadMetadata and Close

(***************************************************************************)
(* Byte-slice helpers.                                                     *)
(***************************************************************************)
Min(a, b) == IF a < b THEN a ELSE b

\* The suffix s[i+1:] of a slice.
Drop(s, i) == SubSeq(s, i + 1, Len(s))

\* The prefix s[:i] of a slice.
Take(s, i) == SubSeq(s, 1, i)

\* Whether sep occurs in s at (0-based) offset i.
OccursAt(s, sep, i) ==
    /\ i >= 0
    /\ i + Len(sep) <= Len(s)
    /\ SubSeq(s, i + 1, i + Len(sep)) = sep

\* bytes.Index(s, sep): the offset of the first occurrence, -1 when none.
BytesIndex(s, sep) ==
    LET hits == {i \in 0..(Len(s) - Len(sep)) : OccursAt(s, sep, i)}
    IN  IF hits = {} THEN -1
        ELSE CHOOSE i \in hits : \A j \in hits : i <= j

RECURSIVE Concat(_)
Concat(ss) == IF ss = <<>> THEN <<>> ELSE Head(ss) \o Concat(Tail(ss))

(***************************************************************************)
(* Configuration: UseDefaults.                                             *)
(***************************************************************************)
GOOS == {"linux", "windows"}

UseDefaultsReadyToken(goos) ==
    IF goos = "windows"
    THEN <<"{", "r", "e", "a", "d", "y", "}", "\r", "\n">>
    ELSE <<"{", "r", "e", "a", "d", "y", "}", "\n">>

bufferCloseArgs == <<"-stay_open", "False", "-execute">>

dataExtractArgs ==
    <<"-json", "-api", "largefilesupport=1", "-extractEmbedded",
      "-x", "HistoryChanged", "-x", "HistoryWhen", "-x", "HistorySoftwareAgent",
      "-x", "HistoryInstanceID", "-x", "HistoryAction", "-x", "ThumbnailImage">>

executeArg == "-execute"

(***************************************************************************)
(* splitReadyToken(data, atEOF): the scanner's split function.  A nil      *)
(* token is hasToken = FALSE; data[:0] is a non-nil empty token.           *)
(***************************************************************************)
NoFinalToken == "no final token found"

SplitResult(advance, token, hasToken, err) ==
    [advance |-> advance, token |-> token, hasToken |-> hasToken, err |-> err]

\* Lines 112-120, with idx the result of bytes.Index.
SplitAtEager(tok, data, atEOF, idx) ==
    IF idx = -1
    THEN IF Len(data) > 0
         THEN SplitResult(0, data, TRUE, NoFinalToken)
         ELSE SplitResult(0, <<>>, FALSE, "")
    ELSE SplitResult(idx + Len(tok), Take(data, idx), TRUE, "")

SplitAtKeepsToken(tok, data, atEOF, idx) ==
    IF idx = -1
    THEN IF atEOF /\ Len(data) > 0
         THEN SplitResult(0, data, TRUE, NoFinalToken)
         ELSE SplitResult(0, <<>>, FALSE, "")
    ELSE SplitResult(idx + Len(tok), Take(data, idx + Len(tok)), TRUE, "")

SplitAtErrOnEmpty(tok, data, atEOF, idx) ==
    IF idx = -1
    THEN IF atEOF
         THEN SplitResult(0, data, TRUE, NoFinalToken)
         ELSE SplitResult(0, <<>>, FALSE, "")
    ELSE SplitResult(idx + Len(tok), Take(data, idx), TRUE, "")

SplitAtNeedsRecord(tok, data, atEOF, idx) ==
    IF idx <= 0
    THEN IF atEOF /\ Len(data) > 0
         THEN SplitResult(0, data, TRUE, NoFinalToken)
         ELSE SplitResult(0, <<>>, FALSE, "")
    ELSE SplitResult(idx + Len(tok), Take(data, idx), TRUE, "")

SplitAt(tok, data, atEOF, idx) ==
    IF idx = -1
    THEN IF atEOF /\ Len(data) > 0
         THEN SplitResult(0, data, TRUE, NoFinalToken)
         ELSE SplitResult(0, <<>>, FALSE, "")
    ELSE SplitResult(idx + Len(tok), Take(data, idx), TRUE, "")

splitReadyToken(tok, data, atEOF) == SplitAt(tok, data, atEOF, BytesIndex(data, tok))

(***************************************************************************)
(* encoding/json as Parse uses it: a decoder of null, numbers, strings,    *)
(* arrays and objects, and Unmarshal into a []KeyValueMap.                 *)
(***************************************************************************)
WS == {" ", "\n", "\r", "\t"}
Digit == {"0", "1", "2", "3", "4", "5", "6", "7", "8", "9"}

RECURSIVE SkipWS(_, _)
SkipWS(b, i) == IF i <= Len(b) /\ b[i] \in WS THEN SkipWS(b, i + 1) ELSE i

RECURSIVE DigitsEnd(_, _)
\* The first index >= i whose byte is no digit (Len(b) + 1 when none).
DigitsEnd(b, i) == IF i <= Len(b) /\ b[i] \in Digit THEN DigitsEnd(b, i + 1) ELSE i

RECURSIVE QuoteAt(_, _)
\* The first index >= i whose byte is a double quote (Len(b) + 1 when none).
QuoteAt(b, i) == IF i <= Len(b) /\ b[i] # "\"" THEN QuoteAt(b, i + 1) ELSE i

JFail == [ok |-> FALSE, val |-> [k |-> "null", v |-> <<>>], next |-> 0]
JOk(kind, v, next) == [ok |-> TRUE, val |-> [k |-> kind, v |-> v], next |-> next]

RECURSIVE ParseValue(_, _)
RECURSIVE ParseElements(_, _, _)
RECURSIVE ParseMembers(_, _, _)

\* After an element e of an array, with j the next byte's index.
ElementsNext(b, acc, e, j) ==
    IF j > Len(b) THEN JFail
    ELSE IF b[j] = "," THEN ParseElements(b, j + 1, Append(acc, e.val))
    ELSE IF b[j] = "]" THEN JOk("arr", Append(acc, e.val), j + 1)
    ELSE JFail

ElementsAfter(b, acc, e) ==
    IF ~e.ok THEN JFail ELSE ElementsNext(b, acc, e, SkipWS(b, e.next))

\* The elements of an array after "[" or ",": acc holds those read so far.
ParseElements(b, i, acc) == ElementsAfter(b, acc, ParseValue(b, i))

\* After a member of an object, with n the next byte's index.
MembersNext(b, acc, n) ==
    IF n > Len(b) THEN JFail
    ELSE IF b[n] = "," THEN ParseMembers(b, n + 1, acc)
    ELSE IF b[n] = "}" THEN JOk("obj", acc, n + 1)
    ELSE JFail

MemberValue(b, acc, key, e) ==
    IF ~e.ok THEN JFail
    ELSE MembersNext(b, Append(acc, [key |-> key.val.v, val |-> e.val]),
                     SkipWS(b, e.next))

MemberColon(b, acc, key, c) ==
    IF c > Len(b) \/ b[c] # ":" THEN JFail
    ELSE MemberValue(b, acc, key, ParseValue(b, c + 1))

MemberKey(b, acc, key) ==
    IF ~key.ok THEN JFail ELSE MemberColon(b, acc, key, SkipWS(b, key.next))

MemberAt(b, acc, j) ==
    IF j > Len(b) \/ b[j] # "\"" THEN JFail
    ELSE MemberKey(b, acc, ParseValue(b, j))

\* The members of an object after "{" or ",": acc holds those read so far.
ParseMembers(b, i, acc) == MemberAt(b, acc, SkipWS(b, i))

NumberAt(b, j, e) ==
    IF b[j] = "0" /\ e > j + 1 THEN JFail ELSE JOk("num", SubSeq(b, j, e - 1), e)

StringAt(b, j, e) ==
    IF e > Len(b) THEN JFail ELSE JOk("str", SubSeq(b, j + 1, e - 1), e + 1)

ArrayAt(b, j, n) ==
    IF n <= Len(b) /\ b[n] = "]" THEN JOk("arr", <<>>, n + 1)
    ELSE ParseElements(b, j + 1, <<>>)

ObjectAt(b, j, n) ==
    IF n <= Len(b) /\ b[n] = "}" THEN JOk("obj", <<>>, n + 1)
    ELSE ParseMembers(b, j + 1, <<>>)

ValueAt(b, j) ==
    IF j > Len(b) THEN JFail
    ELSE IF b[j] = "n"
    THEN IF j + 3 <= Len(b) /\ SubSeq(b, j, j + 3) = <<"n", "u", "l", "l">>
         THEN JOk("null", <<>>, j + 4) ELSE JFail
    ELSE IF b[j] \in Digit THEN NumberAt(b, j, DigitsEnd(b, j))
    ELSE IF b[j] = "\"" THEN StringAt(b, j, QuoteAt(b, j + 1))
    ELSE IF b[j] = "[" THEN ArrayAt(b, j, SkipWS(b, j + 1))
    ELSE IF b[j] = "{" THEN ObjectAt(b, j, SkipWS(b, j + 1))
    ELSE JFail

\* One JSON value starting at or after index i.
ParseValue(b, i) == ValueAt(b, SkipWS(b, i))

DecodeTop(b, r) == IF r.ok /\ SkipWS(b, r.next) > Len(b) THEN r ELSE JFail

\* json.Valid plus the decoded value: one value, only whitespace after it.
Decode(b) == DecodeTop(b, ParseValue(b, 1))

RECURSIVE MapOf(_)
MapPut(rest, last) ==
    [x \in (DOMAIN rest) \cup {last.key} |-> IF x = last.key THEN last.val ELSE rest[x]]

\* The Go map an object decodes to: a later member replaces an earlier one.
MapOf(members) ==
    IF members = <<>> THEN <<>>
    ELSE MapPut(MapOf(Take(members, Len(members) - 1)), members[Len(members)])

NilMap == [nil |-> TRUE, m |-> <<>>]

\* One array element decoded into a KeyValueMap: a type error unless it is an
\* object or null.
ElemToMap(v) ==
    IF v.k = "obj" THEN [err |-> FALSE, map |-> [nil |-> FALSE, m |-> MapOf(v.v)]]
    ELSE IF v.k = "null" THEN [err |-> FALSE, map |-> NilMap]
    ELSE [err |-> TRUE, map |-> NilMap]

UnmarshalElems(es) ==
    [err |-> IF \E x \in 1..Len(es) : es[x].err THEN "type" ELSE "",
     elems |-> [x \in 1..Len(es) |-> es[x].map]]

UnmarshalValue(d) ==
    IF ~d.ok THEN [err |-> "syntax", elems |-> <<>>]
    ELSE IF d.val.k = "null" THEN [err |-> "", elems |-> <<>>]
    ELSE IF d.val.k # "arr" THEN [err |-> "type", elems |-> <<>>]
    ELSE UnmarshalElems([x \in 1..Len(d.val.v) |-> ElemToMap(d.val.v[x])])

\* json.Unmarshal(jsonBytes, &metaMap) with metaMap a []KeyValueMap.
Unmarshal(b) == UnmarshalValue(Decode(b))

(***************************************************************************)
(* ExifToolMetadata and Parse.                                             *)
(***************************************************************************)
NewMeta == [SourceFile |-> "", DataMap |-> NilMap, DataMapJson |-> <<>>]

ErrUnmarshal == "error during unmarshaling"

\* Lines 208-215, with u what json.Unmarshal returned.
ParseUnmarshaled(meta, jsonBytes, u) ==
    IF u.err # ""
    THEN [meta |-> meta, err |-> ErrUnmarshal, panic |-> FALSE]
    ELSE IF Len(u.elems) = 0
    \* metaMap[0] on an empty slice: index out of range, after line 212 ran
    THEN [meta |-> [meta EXCEPT !.DataMapJson = jsonBytes], err |-> "", panic |-> TRUE]
    ELSE [meta |-> [meta EXCEPT !.DataMapJson = jsonBytes, !.DataMap = u.elems[1]],
          err |-> "", panic |-> FALSE]

Parse(meta, jsonBytes) == ParseUnmarshaled(meta, jsonBytes, Unmarshal(jsonBytes))

(***************************************************************************)
(* bufio.Scanner as Open builds it (lines 97-101) and as ReadMetadata      *)
(* drives it (line 167).  data is buf[start:end]; cap is len(buf).         *)
(***************************************************************************)
MaxScanTokenSize == 65536   \* bufio.MaxScanTokenSize, the default maximum
startBufSize == 4096        \* bufio's first allocation for an empty buffer
BufferCap == 2              \* cap(et.io.buffer) when the caller set a buffer
BufferMaxSize == 3          \* et.io.bufferMaxSize when the caller set a buffer

ErrTooLong == "bufio.Scanner: token too long"
ErrClosedPipe == "io: read/write on closed pipe"

NewScanner(bufferSet) ==
    [data |-> <<>>, start |-> 0,
     cap |-> IF bufferSet THEN BufferCap ELSE 0,
     max |-> IF bufferSet THEN BufferMaxSize ELSE MaxScanTokenSize,
     err |-> "", token |-> <<>>, hasToken |-> FALSE,
     \* what the split function returned when Scan last called it
     splitErr |-> "", advance |-> 0]

\* Scanner.setErr: records the first error, never replaces one but io.EOF.
SetErr(s, e) == IF s.err = "" \/ s.err = "EOF" THEN [s EXCEPT !.err = e] ELSE s

\* Scanner.Err: io.EOF is no error.
ScannerErr(s) == IF s.err = "EOF" THEN "" ELSE s.err

\* Scanner.Bytes: the most recent token.
ScannerBytes(s) == s.token

ScanStep(s, ret) == [s |-> s, ret |-> ret]

\* Scan once the split function returned r with no error: advance, keep the
\* token, return it if there is one, and give up once the stream is at its end.
ScanAdvanced(s, r) ==
    IF r.hasToken THEN ScanStep(s, "true")
    ELSE IF s.err # "" THEN ScanStep([s EXCEPT !.start = 0, !.data = <<>>], "false")
    ELSE ScanStep(s, "read")

ScanSplit(s, r) ==
    IF r.err # ""
    THEN ScanStep([SetErr(s, r.err) EXCEPT !.splitErr = r.err, !.advance = r.advance],
                  "false")
    ELSE ScanAdvanced([s EXCEPT !.start = @ + r.advance,
                                !.data = Drop(@, r.advance),
                                !.token = r.token,
                                !.hasToken = r.hasToken,
                                !.splitErr = "",
                                !.advance = r.advance], r)

\* The head of Scan's loop: hand what is buffered to the split function when
\* there are bytes or the stream is at its end.  ret is "true", "false" or
\* "read".
ScanTry(s, tok) ==
    IF Len(s.data) > 0 \/ s.err # ""
    THEN ScanSplit(s, splitReadyToken(tok, s.data, s.err # ""))
    ELSE ScanStep(s, "read")

\* Shift the data to the front of the buffer when that makes room.
ScanShift(s) ==
    IF s.start > 0 /\ (s.start + Len(s.data) = s.cap \/ s.start > s.cap \div 2)
    THEN [s EXCEPT !.start = 0] ELSE s

\* Grow a full buffer; fail with ErrTooLong when it may not grow.
ScanGrow(s) ==
    IF s.start + Len(s.data) = s.cap
    THEN IF s.cap >= s.max
         THEN ScanStep(SetErr(s, ErrTooLong), "false")
         ELSE ScanStep([s EXCEPT !.cap = Min(IF @ * 2 = 0 THEN startBufSize ELSE @ * 2,
                                             s.max),
                                 !.start = 0], "read")
    ELSE ScanStep(s, "read")

\* The middle of Scan's loop.
ScanMakeRoom(s) == ScanGrow(ScanShift(s))

\* The room Read is given: len(buf) - end.
ScanRoom(s) == s.cap - (s.start + Len(s.data))

\* The end of Scan's loop: what one Read brought.
ScanRead(s, chunk) == [s EXCEPT !.data = @ \o chunk]

(***************************************************************************)
(* The Session after Open() returned nil: the subprocess runs, the pipes   *)
(* are open, the scanner is new, nobody holds the lock.                    *)
(***************************************************************************)
Callers == 1..NumCallers

\* late: the call was made after a Close had closed the pipes; k: for a
\* ReadMetadata, its number in the order they took the lock.
NoCall == [op |-> "", file |-> "", meta |-> NewMeta, errs |-> <<>>,
           written |-> <<>>, sent |-> FALSE, scans |-> 0, closes |-> <<>>,
           late |-> FALSE, k |-> 0]
\* scanOk, scanErr, token, splitErr, advance: what Scan returned, the
\* scanner's Err() and Bytes(), and what the split function last returned.
NoResult == [op |-> "", file |-> "", err |-> "", errs |-> <<>>, panic |-> FALSE,
             meta |-> NewMeta, written |-> <<>>, sent |-> FALSE, scans |-> 0,
             closes |-> <<>>, late |-> FALSE, k |-> 0,
             scanOk |-> FALSE, scanErr |-> "", token |-> <<>>,
             splitErr |-> "", advance |-> 0]

Open(goos, bufferSet) ==
    /\ readyToken = UseDefaultsReadyToken(goos)
    /\ lock = 0
    /\ pc = [p \in Callers |-> "idle"]
    /\ call = [p \in Callers |-> NoCall]
    /\ result = [p \in Callers |-> NoResult]
    /\ stdinData = <<>>
    /\ stdinClosed = FALSE
    /\ outClosed = FALSE
    /\ procAlive = TRUE
    /\ pipe = <<>>
    /\ sc = NewScanner(bufferSet)
    /\ hist = [calls |-> 0, emits |-> 0, rmLocks |-> 0, bufAtClose |-> 0,
               blocks |-> <<>>]

(***************************************************************************)
(* The date accessors of a Metadata Record: GetTime and                    *)
(* GetEarliestCreationDate.  A time is its year and month; a date string   *)
(* is "YYYY:MM".                                                           *)
(***************************************************************************)
\* time.Time{}: January of year 1.
ZeroTime == [year |-> 1, month |-> 1]

Before(a, b) == a.year < b.year \/ (a.year = b.year /\ a.month < b.month)

ZeroDateError == "zero-date string"
ErrParsingTime == "parsing time error"

DigitVal(c) == CHOOSE n \in 0..9 : <<"0", "1", "2", "3", "4", "5", "6", "7", "8", "9">>[n + 1] = c

YearOf(val) ==
    1000 * DigitVal(val[1]) + 100 * DigitVal(val[2]) + 10 * DigitVal(val[3]) + DigitVal(val[4])

MonthOf(val) == 10 * DigitVal(val[6]) + DigitVal(val[7])

\* The string has the layout the format detection knows.
WellFormedDate(val) ==
    /\ Len(val) = 7
    /\ \A i \in {1, 2, 3, 4, 6, 7} : val[i] \in Digit
    /\ val[5] = ":"

\* NormalizeTimestampStringFormat and time.Parse with the format it detected:
\* the time, or the zero time and an error.
ParseTimestamp(val) ==
    IF WellFormedDate(val) /\ MonthOf(val) \in 1..12
    THEN [time |-> [year |-> YearOf(val), month |-> MonthOf(val)], err |-> ""]
    ELSE [time |-> ZeroTime, err |-> ErrParsingTime]

\* KeyValueMap.GetString: the field's text, empty when the field is absent.
GetString(map, key) ==
    IF map.nil \/ key \notin DOMAIN map.m THEN <<>> ELSE map.m[key].v

Get(meta, key) == GetString(meta.DataMap, key)

\* regexp "(?i)^[1-9]".
NonZeroDigit == {"1", "2", "3", "4", "5", "6", "7", "8", "9"}

GetTimeAnyDigit(val) ==
    IF val = <<>> \/ val[1] \notin Digit
    THEN [time |-> ZeroTime, err |-> ZeroDateError]
    ELSE ParseTimestamp(val)

\* Lines 192-202, with val the field's string.
GetTimeOf(val) ==
    IF val = <<>> \/ val[1] \notin NonZeroDigit
    THEN [time |-> ZeroTime, err |-> ZeroDateError]
    ELSE ParseTimestamp(val)

GetTime(meta, key) == GetTimeOf(Get(meta, key))

candidateKeysNoFileDate ==
    <<"CreateDate", "ModifyDate", "DateTimeOriginal", "DateTimeDigitized", "GPSDateTime">>

candidateKeys ==
    <<"CreateDate", "ModifyDate", "DateTimeOriginal", "DateTimeDigitized",
      "GPSDateTime", "FileModifyDate">>

ExifCreationDateNotFoundError == "cannot find a suitable exif creation date"

\* Lines 240-250: a candidate is kept unless GetTime failed.
KeepCandidate(candidates, t) ==
    IF t.err = ZeroDateError THEN candidates
    ELSE IF t.err # "" THEN candidates
    ELSE Append(candidates, t.time)

RECURSIVE CollectCandidates(_, _, _)
CollectCandidates(meta, keys, candidates) ==
    IF keys = <<>> THEN candidates
    ELSE CollectCandidates(meta, Tail(keys),
                           KeepCandidate(candidates, GetTime(meta, Head(keys))))

RECURSIVE FindEarliestDate(_, _)
\* The chronologically earliest of the dates, the fallback when there is none.
FindEarliestDate(dates, fallback) ==
    IF dates = <<>> THEN fallback
    ELSE IF Len(dates) = 1 THEN dates[1]
    ELSE IF Before(FindEarliestDate(Tail(dates), fallback), dates[1])
    THEN FindEarliestDate(Tail(dates), fallback)
    ELSE dates[1]

\* PrintLnRed(meta.SourceFile); Catch(err): the path is printed and the
\* process stops; nothing is returned.
Fatal(meta, err) ==
    [returned |-> FALSE, fatal |-> err, printed |-> <<meta.SourceFile>>, value |-> ZeroTime]

\* Lines 257-262.
EarliestChecked(meta, earliest) ==
    IF earliest.year <= 1970
    THEN Fatal(meta, ExifCreationDateNotFoundError)
    ELSE [returned |-> TRUE, fatal |-> "", printed |-> <<>>, value |-> earliest]

\* Lines 252-255.
EarliestOf(meta, candidates) ==
    IF Len(candidates) = 0
    THEN Fatal(meta, ExifCreationDateNotFoundError)
    ELSE EarliestChecked(meta, FindEarliestDate(candidates, ZeroTime))

GetEarliestCreationDate(meta) ==
    EarliestOf(meta, CollectCandidates(meta, candidateKeys, <<>>))

\* The field names a record may hold: the six candidates and one other date.
DateKeys ==
    {"CreateDate", "ModifyDate", "DateTimeOriginal", "DateTimeDigitized",
     "GPSDateTime", "FileModifyDate", "MetadataDate"}

\* What a date field may hold.
DateStrings ==
    {<<>>,
     <<"0", "0", "0", "0", ":", "0", "0">>,
     <<"x">>,
     <<"1", "9", "6", "9", ":", "1", "2">>,
     <<"1", "9", "7", "0", ":", "0", "1">>,
     <<"1", "9", "9", "5", ":", "0", "6">>,
     <<"2", "0", "1", "0", ":", "0", "3">>,
     <<"2", "0", "1", "0", ":", "1", "3">>}

\* The records of up to MaxDateFields string fields.
DateRecords ==
    {[SourceFile |-> "a.jpg",
      DataMap |-> [nil |-> FALSE,
                   m |-> [key \in DOMAIN f |-> [k |-> "str", v |-> f[key]]]],
      DataMapJson |-> <<>>] :
        f \in UNION {[ks -> DateStrings] : ks \in {x \in SUBSET DateKeys : Cardinality(x) <= MaxDateFields}}}

NoTime == [time |-> ZeroTime, err |-> ""]
NoEarliest == [returned |-> FALSE, fatal |-> "", printed |-> <<>>, value |-> ZeroTime]

DtIdle == [meta |-> NewMeta, op |-> "", key |-> "", got |-> NoTime, earliest |-> NoEarliest]

(***************************************************************************)
(* splitReadyToken on bounded streams: a stream arrives in chunks of any   *)
(* size and then ends; after each arrival the split function is called on  *)
(* the unconsumed bytes, as bufio.Scanner calls it.                        *)
(***************************************************************************)
Fragments(tok) ==
    {<<"x">>, <<"{">>, tok, Take(tok, 4), Drop(tok, 4)}

FramingStreams(tok) ==
    {Concat(fs) : fs \in UNION {[1..n -> Fragments(tok)] : n \in 0..MaxFrags}}

NoSplit == [called |-> FALSE, data |-> <<>>, atEOF |-> FALSE, advance |-> 0,
            token |-> <<>>, hasToken |-> FALSE, err |-> "", base |-> 0]

FrIdle == [stream |-> <<>>, fed |-> 0, eof |-> FALSE, consumed |-> 0,
           last |-> NoSplit, prev |-> NoSplit]

FrRecord(f, fed, eof, data, r) ==
    [f EXCEPT !.fed = fed, !.eof = eof,
              !.consumed = @ + r.advance,
              !.prev = f.last,
              !.last = [called |-> TRUE, data |-> data, atEOF |-> eof,
                        advance |-> r.advance, token |-> r.token,
                        hasToken |-> r.hasToken, err |-> r.err,
                        base |-> f.consumed]]

FrSplitData(f, fed, eof, data) ==
    FrRecord(f, fed, eof, data, splitReadyToken(readyToken, data, eof))

\* One call of the split function on the unconsumed bytes of the stream.
FrSplit(f, fed, eof) == FrSplitData(f, fed, eof, SubSeq(f.stream, f.consumed + 1, fed))

InitFraming ==
    /\ \E goos \in GOOS : Open(goos, FALSE)
    /\ \E st \in FramingStreams(readyToken) : fr = [FrIdle EXCEPT !.stream = st]
    /\ pr = [meta |-> NewMeta, n |-> 0, input |-> <<>>, err |-> "",
             panic |-> FALSE, before |-> NewMeta]
    /\ dt = DtIdle

\* n more bytes of the stream arrive.
FrRead(n) ==
    /\ ~fr.eof
    /\ fr.last.err = ""
    /\ fr.fed + n <= Len(fr.stream)
    /\ fr' = FrSplit(fr, fr.fed + n, FALSE)
    /\ UNCHANGED <<readyToken, sessionVars, pr, dt>>

\* The stream ends: the split function is called with atEOF.
FrEOF ==
    /\ ~fr.eof
    /\ fr.last.err = ""
    /\ fr.fed = Len(fr.stream)
    /\ fr' = FrSplit(fr, fr.fed, TRUE)
    /\ UNCHANGED <<readyToken, sessionVars, pr, dt>>

\* The next Scan after one that returned a token: the split function is
\* called on what is left, with no new bytes.
FrAgain ==
    /\ fr.last.called /\ fr.last.hasToken /\ fr.last.err = ""
    /\ fr.fed > fr.consumed \/ fr.eof
    /\ fr' = FrSplit(fr, fr.fed, fr.eof)
    /\ UNCHANGED <<readyToken, sessionVars, pr, dt>>

NextFraming ==
    \/ \E n \in 1..(MaxFrags * 9) : FrRead(n)
    \/ FrEOF
    \/ FrAgain

SpecFraming == InitFraming /\ [][NextFraming]_vars

(***************************************************************************)
(* Parse on bounded inputs: a new record is parsed, and a record that      *)
(* holds data is parsed again.                                             *)
(***************************************************************************)
JsonPieces ==
    {<<"[">>, <<"]">>, <<"{", "}">>, <<",">>, <<"n", "u", "l", "l">>,
     <<"{", "\"", "a", "\"", ":", "1", "}">>}

JsonInputs ==
    {Concat(ps) : ps \in UNION {[1..n -> JsonPieces] : n \in 0..MaxJsonToks}}

\* The inputs of a second Parse on one record: the short ones.
AgainInputs == {b \in JsonInputs : Len(b) <= MaxAgainLen}

PrRecord(meta, b, n, r) ==
    [meta |-> r.meta, n |-> n, input |-> b, err |-> r.err,
     panic |-> r.panic, before |-> meta]

PrCall(meta, b, n) == PrRecord(meta, b, n, Parse(meta, b))

InitParse ==
    /\ Open("linux", FALSE)
    /\ fr = FrIdle
    /\ pr = [meta |-> NewMeta, n |-> 0, input |-> <<>>, err |-> "",
             panic |-> FALSE, before |-> NewMeta]
    /\ dt = DtIdle

\* Parse on a record as ExifToolMetadata{} creates it.
ParseNew(b) ==
    /\ pr' = PrCall(NewMeta, b, 1)
    /\ UNCHANGED <<readyToken, sessionVars, fr, dt>>

\* Parse on a record that an earlier Parse filled.
ParseAgain(b) ==
    /\ pr' = PrCall(pr.meta, b, 2)
    /\ UNCHANGED <<readyToken, sessionVars, fr, dt>>

NextParse ==
    \/ /\ pr.n = 0
       /\ \E b \in JsonInputs : ParseNew(b)
    \/ /\ pr.n = 1
       /\ pr.meta # NewMeta
       /\ \E b \in AgainInputs : ParseAgain(b)

SpecParse == InitParse /\ [][NextParse]_vars

(***************************************************************************)
(* The Session in use: callers run ReadMetadata and Close concurrently,    *)
(* the subprocess emits output and may exit.                               *)
(***************************************************************************)
\* The files caller p asks for: each caller reads a file of its own.
Files(p) == {IF p = 1 THEN "a.jpg" ELSE "b.jpg"}

\* What the subprocess may emit in one piece: a one-element JSON array and the
\* ready token, the ready token alone, a byte of other output.
Blocks(tok) == {<<"[", "{", "}", "]">> \o tok, tok, <<"x">>}

\* The same, and two ready tokens in one piece.
SerialBlocks(tok) == Blocks(tok) \cup {tok \o tok}

\* fmt.Fprintln(w, v): the operand, then a newline.
Fprintln(v) == <<v, "\n">>

\* A write on et.io.stdin succeeds while the handle is open and the subprocess
\* holds the other end.
StdinWritableIfAlive == procAlive

StdinWritable == ~stdinClosed /\ procAlive

\* sync.Mutex.Lock returns once the mutex is free.
CanLockAlways(l) == TRUE

CanLock(l) == l = 0

\* defer et.io.lock.Unlock(): runs on every return (and on a panic).
UnlockOnSuccessOnly(l, res) == IF res.err = "" /\ ~res.panic THEN 0 ELSE l

\* An Unlock written on each return path, and left out where the split
\* function failed.
UnlockUnlessSplitFailed(l, res) == IF res.splitErr # "" THEN l ELSE 0

DeferredUnlock(l, res) == 0

\* The lines ReadMetadata writes, in order (lines 160-165).
RmLinesExecuteFirst(file) == dataExtractArgs \o <<executeArg, file>>

RmLines(file) == dataExtractArgs \o <<file, executeArg>>

\* errs = append(errs, ...) when a pipe's Close failed (lines 136-142).
CollectFirstErr(errs, failed, msg) ==
    IF failed /\ errs = <<>> THEN Append(errs, msg) ELSE errs

CollectErr(errs, failed, msg) == IF failed THEN Append(errs, msg) ELSE errs

ErrReading == "error reading exif data"
ErrScan == "error while reading stdMergedOut"
ErrClosingOut == "error while closing stdMergedOut"
ErrClosingIn == "error while closing stdin"
ErrClosing == "error while closing exiftool"
ErrWrite == "write error"

\* What p's call returns, and the deferred Unlock.
Return(p, res) ==
    /\ result' = [result EXCEPT ![p] = res]
    /\ pc' = [pc EXCEPT ![p] = "idle"]
    /\ call' = [call EXCEPT ![p] = NoCall]
    /\ lock' = DeferredUnlock(lock, res)

ResultOf(c) ==
    [NoResult EXCEPT !.op = c.op, !.file = c.file, !.errs = c.errs,
                     !.meta = c.meta, !.written = c.written, !.sent = c.sent,
                     !.scans = c.scans, !.closes = c.closes,
                     !.late = c.late, !.k = c.k]

\* ---- ReadMetadata(file)
RmCallUpTo(p, file, max) ==
    /\ pc[p] = "idle"
    /\ hist.calls < max
    /\ pc' = [pc EXCEPT ![p] = "rm_lock"]
    /\ call' = [call EXCEPT ![p] = [NoCall EXCEPT !.op = "ReadMetadata", !.file = file,
                                                  !.late = outClosed /\ stdinClosed]]
    /\ hist' = [hist EXCEPT !.calls = @ + 1]
    /\ UNCHANGED <<readyToken, lock, result, stdinData, stdinClosed, outClosed,
                   procAlive, pipe, sc, fr, pr, dt>>

RmCall(p, file) == RmCallUpTo(p, file, MaxCalls)

\* Lines 153-158: the lock, the new record, Parse("{}") with its error dropped.
RmLock(p) ==
    /\ pc[p] = "rm_lock"
    /\ CanLock(lock)
    /\ lock' = p
    /\ pc' = [pc EXCEPT ![p] = "rm_write"]
    /\ call' = [call EXCEPT ![p].meta = Parse([NewMeta EXCEPT !.SourceFile = call[p].file],
                                              <<"{", "}">>).meta,
                            ![p].k = hist.rmLocks + 1]
    /\ hist' = [hist EXCEPT !.rmLocks = @ + 1]
    /\ UNCHANGED <<readyToken, result, stdinData, stdinClosed, outClosed,
                   procAlive, pipe, sc, fr, pr, dt>>

RECURSIVE WriteLines(_, _)
\* The bytes a loop of Fprintln calls sends for the lines, in order.
WriteLines(lines, acc) ==
    IF lines = <<>> THEN acc
    ELSE WriteLines(Tail(lines), acc \o Fprintln(Head(lines)))

\* Lines 160-165: the loop of Fprintln calls, their errors dropped.
RmWrite(p) ==
    /\ pc[p] = "rm_write"
    /\ LET bytes == WriteLines(RmLines(call[p].file), <<>>)
       IN  /\ stdinData' = IF StdinWritable THEN stdinData \o bytes ELSE stdinData
           /\ call' = [call EXCEPT ![p].written = @ \o bytes,
                                   ![p].sent = StdinWritable]
           /\ pc' = [pc EXCEPT ![p] = "rm_scan"]
    /\ UNCHANGED <<readyToken, lock, result, stdinClosed, outClosed,
                   procAlive, pipe, sc, hist, fr, pr, dt>>

RmParsed(base, q) == [base EXCEPT !.err = q.err, !.meta = q.meta, !.panic = q.panic]

RmScanned(c, s, scanOk, base) ==
    IF ~scanOk THEN [base EXCEPT !.err = ErrReading]
    ELSE IF ScannerErr(s) # "" THEN [base EXCEPT !.err = ErrScan]
    ELSE RmParsed(base, Parse(c.meta, ScannerBytes(s)))

\* Lines 167-177: what ReadMetadata returns once Scan returned scanOk.
ReadMetadataReturn(c, s, scanOk) ==
    RmScanned(c, s, scanOk,
              [ResultOf(c) EXCEPT !.scanOk = scanOk, !.scanErr = ScannerErr(s),
                                  !.token = IF scanOk THEN ScannerBytes(s) ELSE <<>>,
                                  !.splitErr = s.splitErr, !.advance = s.advance])

\* Scan returned.
RmScanDone(p, c, s, scanOk) ==
    /\ sc' = s
    /\ Return(p, ReadMetadataReturn(c, s, scanOk))
    /\ UNCHANGED pipe

\* Scan reads: the closed pipe's error, or some of the bytes that wait.
RmScanRead(p, c, m) ==
    IF m.ret = "false" THEN RmScanDone(p, c, m.s, FALSE)
    ELSE /\ IF outClosed
            THEN /\ sc' = SetErr(m.s, ErrClosedPipe)
                 /\ UNCHANGED pipe
            ELSE \E n \in 1..Min(ScanRoom(m.s), Len(pipe)) :
                      /\ sc' = ScanRead(m.s, Take(pipe, n))
                      /\ pipe' = Drop(pipe, n)
         /\ call' = [call EXCEPT ![p] = c]
         /\ UNCHANGED <<pc, lock, result>>

RmScanRound(p, c, t) ==
    IF t.ret # "read" THEN RmScanDone(p, c, t.s, t.ret = "true")
    ELSE RmScanRead(p, c, ScanMakeRoom(t.s))

\* Line 167: one round of Scan's loop.  It returns when the split function
\* yields a token or the scanner has an error, and else waits for a Read.
RmScan(p) ==
    /\ pc[p] = "rm_scan"
    /\ RmScanRound(p, [call[p] EXCEPT !.scans = 1], ScanTry(sc, readyToken))
    /\ UNCHANGED <<readyToken, stdinData, stdinClosed, outClosed, procAlive, hist, fr, pr, dt>>

\* ---- Close()
ClCallUpTo(p, max) ==
    /\ pc[p] = "idle"
    /\ hist.calls < max
    /\ pc' = [pc EXCEPT ![p] = "cl_lock"]
    /\ call' = [call EXCEPT ![p] = [NoCall EXCEPT !.op = "Close",
                                                  !.late = outClosed /\ stdinClosed]]
    /\ hist' = [hist EXCEPT !.calls = @ + 1]
    /\ UNCHANGED <<readyToken, lock, result, stdinData, stdinClosed, outClosed,
                   procAlive, pipe, sc, fr, pr, dt>>

ClCall(p) == ClCallUpTo(p, MaxCalls)

ClLock(p) ==
    /\ pc[p] = "cl_lock"
    /\ CanLock(lock)
    /\ lock' = p
    /\ pc' = [pc EXCEPT ![p] = "cl_write"]
    /\ UNCHANGED <<readyToken, call, result, stdinData, stdinClosed, outClosed,
                   procAlive, pipe, sc, hist, fr, pr, dt>>

\* Lines 128-133: the loop of Fprintln calls; the first error ends Close.
ClWrite(p) ==
    /\ pc[p] = "cl_write"
    /\ IF StdinWritable
       THEN LET bytes == WriteLines(bufferCloseArgs, <<>>)
            IN  /\ stdinData' = stdinData \o bytes
                /\ call' = [call EXCEPT ![p].written = @ \o bytes, ![p].sent = TRUE]
                /\ pc' = [pc EXCEPT ![p] = "cl_close"]
                /\ UNCHANGED <<lock, result>>
       ELSE /\ Return(p, [ResultOf([call[p] EXCEPT
                                       !.written = Fprintln(bufferCloseArgs[1])])
                             EXCEPT !.err = ErrWrite])
            /\ UNCHANGED stdinData
    /\ UNCHANGED <<readyToken, stdinClosed, outClosed, procAlive, pipe, sc, hist, fr, pr, dt>>

\* Line 144-148: what Close returns after closing the pipes.
CloseReturn(c) ==
    [ResultOf(c) EXCEPT !.err = IF Len(c.errs) > 0 THEN ErrClosing ELSE ""]

\* Lines 135-148: et.io.stdMergedOut.Close() (what was emitted and not read is
\* lost), then et.io.stdin.Close(), and the collected errors.
ClClose(p, outFailed, inFailed) ==
    /\ pc[p] = "cl_close"
    /\ outClosed' = TRUE
    /\ pipe' = <<>>
    /\ stdinClosed' = TRUE
    /\ Return(p, CloseReturn(
           [call[p] EXCEPT
               !.errs = CollectErr(CollectErr(@, outFailed, ErrClosingOut),
                                   inFailed, ErrClosingIn),
               !.closes = <<[h |-> "stdMergedOut", failed |-> outFailed],
                            [h |-> "stdin", failed |-> inFailed]>>]))
    /\ hist' = IF outClosed THEN hist ELSE [hist EXCEPT !.bufAtClose = Len(sc.data)]
    /\ UNCHANGED <<readyToken, stdinData, procAlive, sc, fr, pr, dt>>

\* ---- the subprocess (cmd.Start, line 103; its stdout and stderr feed the pipe)
EmitUpTo(b, max) ==
    /\ procAlive
    /\ ~outClosed
    /\ hist.emits < max
    /\ pipe' = pipe \o b
    /\ hist' = [hist EXCEPT !.emits = @ + 1]
    /\ UNCHANGED <<readyToken, lock, pc, call, result, stdinData, stdinClosed,
                   outClosed, procAlive, sc, fr, pr, dt>>

Emit(b) == EmitUpTo(b, MaxEmit)

\* The subprocess exits; nothing closes the write end of the merged pipe.
Exit ==
    /\ procAlive
    /\ procAlive' = FALSE
    /\ UNCHANGED <<readyToken, lock, pc, call, result, stdinData, stdinClosed,
                   outClosed, pipe, sc, hist, fr, pr, dt>>

PrIdle == [meta |-> NewMeta, n |-> 0, input |-> <<>>, err |-> "",
           panic |-> FALSE, before |-> NewMeta]

InitDates ==
    /\ Open("linux", FALSE)
    /\ fr = FrIdle
    /\ pr = PrIdle
    /\ \E meta \in DateRecords : dt = [DtIdle EXCEPT !.meta = meta]

\* meta.GetTime(key) on the record.
DtGetTime(key) ==
    /\ dt.op = ""
    /\ dt' = [dt EXCEPT !.op = "GetTime", !.key = key, !.got = GetTime(dt.meta, key)]
    /\ UNCHANGED <<readyToken, sessionVars, fr, pr>>

\* meta.GetEarliestCreationDate() on the record.
DtEarliest ==
    /\ dt.op = ""
    /\ dt' = [dt EXCEPT !.op = "GetEarliestCreationDate",
                        !.earliest = GetEarliestCreationDate(dt.meta)]
    /\ UNCHANGED <<readyToken, sessionVars, fr, pr>>

NextDates ==
    \/ \E key \in DateKeys : DtGetTime(key)
    \/ DtEarliest

SpecDates == InitDates /\ [][NextDates]_vars

Init ==
    /\ \E goos \in GOOS : \E bufferSet \in BOOLEAN : Open(goos, bufferSet)
    /\ fr = FrIdle
    /\ pr = PrIdle
    /\ dt = DtIdle

Next ==
    \/ \E p \in Callers : \E file \in Files(p) : RmCall(p, file)
    \/ \E p \in Callers : RmLock(p)
    \/ \E p \in Callers : RmWrite(p)
    \/ \E p \in Callers : RmScan(p)
    \/ \E p \in Callers : ClCall(p)
    \/ \E p \in Callers : ClLock(p)
    \/ \E p \in Callers : ClWrite(p)
    \/ \E p \in Callers : \E outFailed, inFailed \in BOOLEAN : ClClose(p, outFailed, inFailed)
    \/ \E b \in Blocks(readyToken) : Emit(b)
    \/ Exit

Spec == Init /\ [][Next]_vars

\* One caller making its calls one after the other.
NextSerial ==
    \/ \E file \in Files(1) : RmCallUpTo(1, file, MaxSerialCalls)
    \/ RmLock(1)
    \/ RmWrite(1)
    \/ RmScan(1)
    \/ ClCallUpTo(1, MaxSerialCalls)
    \/ ClLock(1)
    \/ ClWrite(1)
    \/ \E outFailed, inFailed \in BOOLEAN : ClClose(1, outFailed, inFailed)
    \/ \E b \in SerialBlocks(readyToken) : Emit(b)
    \/ Exit

SpecSerial == Init /\ [][NextSerial]_vars

(***************************************************************************)
(* The Session with a subprocess that keeps the protocol: it answers each  *)
(* execute command it received, in order, with one block that ends in the  *)
(* ready token, and exits on the command Close sends.                      *)
(***************************************************************************)
\* The positions of the execute commands in what stdin received.
ExecutePositions == {i \in 1..Len(stdinData) : stdinData[i] = executeArg}

\* The position of the n-th of them.
ExecutePosition(n) ==
    CHOOSE i \in ExecutePositions : Cardinality({j \in ExecutePositions : j <= i}) = n

\* The argument before the next execute command that has no answer yet: a
\* file of ReadMetadata, or "False" of Close.
NextArgAt(i) == stdinData[i - 2]

\* The output for a file: a one-element array of one object that names it,
\* or, when the file cannot be read, a line that is no JSON.
RecordFor(file, good) ==
    IF good
    THEN <<"[", "{", "\"", IF file = "a.jpg" THEN "a" ELSE "b", "\"", ":", "1", "}", "]">>
    ELSE <<IF file = "a.jpg" THEN "a" ELSE "b">>

HasUnanswered == Len(hist.blocks) < Cardinality(ExecutePositions)

RespondWith(file, record) ==
    /\ pipe' = pipe \o record \o readyToken
    /\ hist' = [hist EXCEPT !.blocks = Append(@, [file |-> file, record |-> record]),
                            !.emits = @ + 1]

\* The subprocess answers the oldest unanswered ReadMetadata request.
Respond(good) ==
    /\ procAlive
    /\ ~outClosed
    /\ HasUnanswered
    /\ NextArgAt(ExecutePosition(Len(hist.blocks) + 1)) # bufferCloseArgs[2]
    /\ RespondWith(NextArgAt(ExecutePosition(Len(hist.blocks) + 1)),
                   RecordFor(NextArgAt(ExecutePosition(Len(hist.blocks) + 1)), good))
    /\ UNCHANGED <<readyToken, lock, pc, call, result, stdinData, stdinClosed,
                   outClosed, procAlive, sc, fr, pr, dt>>

\* The subprocess reaches the command of Close and exits.
Shutdown ==
    /\ procAlive
    /\ HasUnanswered
    /\ NextArgAt(ExecutePosition(Len(hist.blocks) + 1)) = bufferCloseArgs[2]
    /\ procAlive' = FALSE
    /\ UNCHANGED <<readyToken, lock, pc, call, result, stdinData, stdinClosed,
                   outClosed, pipe, sc, hist, fr, pr, dt>>

NextProtocol ==
    \/ \E p \in Callers : \E file \in Files(p) : RmCall(p, file)
    \/ \E p \in Callers : RmLock(p)
    \/ \E p \in Callers : RmWrite(p)
    \/ \E p \in Callers : RmScan(p)
    \/ \E p \in Callers : ClCall(p)
    \/ \E p \in Callers : ClLock(p)
    \/ \E p \in Callers : ClWrite(p)
    \/ \E p \in Callers : \E outFailed, inFailed \in BOOLEAN : ClClose(p, outFailed, inFailed)
    \/ \E good \in BOOLEAN : Respond(good)
    \/ Shutdown

SpecProtocol == Init /\ [][NextProtocol]_vars

(***************************************************************************)
(* Properties of the Session (Spec).                                       *)
(***************************************************************************)
\* Where a caller stands between Lock returning and its call returning.
InFlight == {"rm_write", "rm_scan", "cl_write", "cl_close"}
Waiting == {"rm_lock", "cl_lock"}

\* C1: at most one ReadMetadata or Close is in flight at any time, and the one
\* in flight holds the lock: no write, scan step or pipe close of one call
\* happens between those of another.
C1_OneInFlight ==
    /\ Cardinality({p \in Callers : pc[p] \in InFlight}) <= 1
    /\ \A p \in Callers : pc[p] \in InFlight => lock = p

\* One call has written its commands and scans while another caller waits.
C1_Witness ==
    \E p, q \in Callers :
        /\ pc[p] = "rm_scan" /\ call[p].written # <<>>
        /\ pc[q] \in Waiting

\* The bytes of the lines, each ended by a newline.
Lines(args) == Concat([i \in 1..Len(args) |-> <<args[i], "\n">>])

\* What one ReadMetadata(file) is to send: each extraction argument, the file,
\* the execute command.
ExpectedRequest(file) == Lines(dataExtractArgs) \o <<file, "\n", "-execute", "\n">>

EndsWith(s, t) == Len(t) <= Len(s) /\ SubSeq(s, Len(s) - Len(t) + 1, Len(s)) = t

\* C2: a ReadMetadata(file) call writes each extraction argument, then the
\* file, then the execute command, each as a line of its own, scans only after
\* these writes, and scans once.
C2_WritesThenOneScan ==
    \A p \in Callers :
        /\ pc[p] \in {"rm_lock", "rm_write"} =>
              (call[p].scans = 0 /\ call[p].written = <<>>)
        /\ pc[p] = "rm_scan" =>
              /\ call[p].scans <= 1
              /\ call[p].written = ExpectedRequest(call[p].file)
              /\ call[p].sent => EndsWith(stdinData, ExpectedRequest(call[p].file))
        /\ result[p].op = "ReadMetadata" =>
              /\ result[p].scans = 1
              /\ result[p].written = ExpectedRequest(result[p].file)

\* A ReadMetadata that sent its request and returned a parsed record.
C2_Witness ==
    \E p \in Callers :
        /\ result[p].op = "ReadMetadata"
        /\ result[p].sent
        /\ result[p].err = "" /\ ~result[p].panic
        /\ result[p].scans = 1
        /\ Len(result[p].written) = 2 * (Len(dataExtractArgs) + 2)

\* C6: ReadMetadata reports the wrapped underlying error whenever the
\* scanner's error is set, the generic 'error reading exif data' error when
\* the scan returned no data without one, and the parse error when the
\* captured bytes are no one-element array.
C6_DistinctFailureModes ==
    \A p \in Callers :
        result[p].op = "ReadMetadata" =>
            /\ result[p].scanErr # "" => result[p].err = ErrScan
            /\ (~result[p].scanOk /\ result[p].scanErr = "") => result[p].err = ErrReading
            /\ result[p].err \in {"", ErrScan, ErrReading, ErrUnmarshal}

\* C7: the lock is held only by a call that is in flight: every return of
\* ReadMetadata or Close, whatever it returns, leaves the lock free for the
\* next caller.
C7_LockReleased ==
    /\ lock # 0 => pc[lock] \in InFlight
    /\ \A p \in Callers : pc[p] \notin InFlight => lock # p

\* A call failed, and another caller got the lock after it.
C7_Witness ==
    \E p, q \in Callers :
        /\ p # q
        /\ pc[p] = "idle" /\ result[p].op # "" /\ result[p].err # ""
        /\ lock = q

\* C8: when Close returns, it has written every close argument as a line and
\* both pipe handles are closed.
C8_CloseReleasesPipes ==
    \A p \in Callers :
        result[p].op = "Close" =>
            /\ result[p].written = Lines(<<"-stay_open", "False", "-execute">>)
            /\ outClosed
            /\ stdinClosed

\* The messages of the pipe closes that failed, in the order of the closes.
FailedCloses(closes) ==
    Concat([i \in 1..Len(closes) |->
              IF closes[i].failed
              THEN <<IF closes[i].h = "stdin" THEN ErrClosingIn ELSE ErrClosingOut>>
              ELSE <<>>])

\* C9: a Close that reached the pipes closes the output stream and then the
\* input handle whether or not the first close failed, and the error it
\* returns holds every close failure that occurred.
C9_CloseErrorsCollected ==
    \A p \in Callers :
        (result[p].op = "Close" /\ result[p].closes # <<>>) =>
            /\ Len(result[p].closes) = 2
            /\ result[p].closes[1].h = "stdMergedOut"
            /\ result[p].closes[2].h = "stdin"
            /\ outClosed /\ stdinClosed
            /\ result[p].errs = FailedCloses(result[p].closes)
            /\ (result[p].err = ErrClosing) <=> (\E i \in 1..2 : result[p].closes[i].failed)
            /\ result[p].err \in {"", ErrClosing}

\* Both closes failed and both failures are in the returned error.
C9_Witness ==
    \E p \in Callers :
        /\ result[p].op = "Close"
        /\ Len(result[p].closes) = 2
        /\ result[p].closes[1].failed /\ result[p].closes[2].failed
        /\ result[p].errs = <<ErrClosingOut, ErrClosingIn>>
        /\ stdinClosed

Contains(s, sep) == \E i \in 0..(Len(s) - Len(sep)) : OccursAt(s, sep, i)

\* The scanner holds the ready token somewhere in what it has read or is to
\* read.
RecordReady == Contains(sc.data \o pipe, readyToken)

\* The scan step has nothing to hand to the split function and waits in Read:
\* the pipe is open and holds no byte.
ScanWaitsAfter(m) ==
    m.ret = "read" /\ ~outClosed /\ Min(ScanRoom(m.s), Len(pipe)) < 1

ScanWaitsIn(t) == t.ret = "read" /\ ScanWaitsAfter(ScanMakeRoom(t.s))

ScanWaits == ScanWaitsIn(ScanTry(sc, readyToken))

\* C14: the scan step of the ReadMetadata in flight waits only while the
\* subprocess is alive and has not emitted a record and the ready token: once
\* the token is there to read, or the subprocess has exited, the scan step
\* goes on, and so returns.
C14_ScanReturns ==
    \A p \in Callers :
        (pc[p] = "rm_scan" /\ (RecordReady \/ ~procAlive)) => ~ScanWaits

\* C16: a ReadMetadata whose scan ran out of buffer before the ready token
\* fails, and its failure is the 'no final token found' error of
\* splitReadyToken.
C16_OverflowIsFramingError ==
    \A p \in Callers :
        (result[p].op = "ReadMetadata" /\ result[p].scanErr = ErrTooLong) =>
            /\ result[p].err # ""
            /\ result[p].splitErr = NoFinalToken

(***************************************************************************)
(* Properties of one caller's calls in sequence (SpecSerial).              *)
(***************************************************************************)
\* C17: a ready token that directly follows what was consumed gives an empty
\* record, not 'no data': the scan step succeeds having consumed exactly the
\* token, and ReadMetadata fails with the decode error.
C17_EmptyRecordIsDecodeError ==
    \A p \in Callers :
        /\ (pc[p] = "rm_scan" /\ OccursAt(sc.data, readyToken, 0)) =>
              /\ ScanTry(sc, readyToken).ret = "true"
              /\ ScanTry(sc, readyToken).s.token = <<>>
              /\ ScanTry(sc, readyToken).s.advance = Len(readyToken)
        /\ (result[p].op = "ReadMetadata" /\ result[p].scanOk /\ result[p].token = <<>>) =>
              /\ result[p].advance = Len(readyToken)
              /\ result[p].err = ErrUnmarshal
              /\ ~result[p].panic

\* Two tokens came back to back in one piece of output: the first call got
\* the empty record before the first, and the second call, seen here, the
\* empty record between the two.
C17_Witness ==
    /\ hist.emits = 1
    /\ result[1].op = "ReadMetadata"
    /\ result[1].k = 2
    /\ result[1].scanOk
    /\ result[1].token = <<>>
    /\ result[1].advance = Len(readyToken)
    /\ result[1].err = ErrUnmarshal

\* C15: a ReadMetadata that hit 'no final token found' returns an error
\* without crashing and leaves the lock free, and the calls after it
\* complete: a later scan step returns at once, a later Close never waits.
C15_FramingFailureNotFatal ==
    \A p \in Callers :
        /\ (result[p].op = "ReadMetadata" /\ result[p].splitErr = NoFinalToken) =>
              /\ result[p].err # ""
              /\ ~result[p].panic
        /\ sc.splitErr = NoFinalToken =>
              /\ pc[p] = "idle" => lock # p
              /\ pc[p] \in {"rm_lock", "cl_lock"} => lock = 0
              /\ pc[p] = "rm_scan" => ~ScanWaits

\* After the framing failure, a Close was called and has returned.
C15_Witness ==
    /\ sc.splitErr = NoFinalToken
    /\ pc[1] = "idle"
    /\ result[1].op = "Close"
    /\ hist.calls = 3
    /\ lock = 0

\* A Close has closed both pipes while the scanner held no unread bytes.
ClosedClean == outClosed /\ stdinClosed /\ hist.bufAtClose = 0

\* C20: after a Close that closed both pipes with nothing buffered in the
\* scanner, every later ReadMetadata and every later Close returns an error,
\* none crashes, blocks or keeps the lock.
C20_AfterCloseCallsFail ==
    ClosedClean =>
        \A p \in Callers :
            /\ (result[p].op # "" /\ result[p].late) =>
                  /\ result[p].err # ""
                  /\ ~result[p].panic
                  /\ result[p].meta.DataMapJson = <<>>
            /\ pc[p] = "idle" => lock # p
            /\ (pc[p] = "rm_scan" /\ call[p].late) => ~ScanWaits

\* After the Close, a ReadMetadata failed and then a second Close failed.
C20_Witness ==
    /\ ClosedClean
    /\ result[1].op = "Close"
    /\ result[1].late
    /\ hist.calls = 3
    /\ result[1].err = ErrWrite
    /\ sc.err = ErrClosedPipe
    /\ hist.rmLocks = 1
    /\ pc[1] = "idle"

(***************************************************************************)
(* Properties of the Session with a subprocess that keeps the protocol     *)
(* (SpecProtocol).                                                         *)
(***************************************************************************)
\* C19: with one block per execute command, in command order, the k-th
\* ReadMetadata to take the lock scans the k-th block, which is the block for
\* the file it asked for, whatever the interleaving of the callers and
\* whatever earlier calls returned.
C19_KthCallGetsKthBlock ==
    \A p \in Callers :
        (result[p].op = "ReadMetadata" /\ result[p].scanOk) =>
            /\ result[p].k <= Len(hist.blocks)
            /\ result[p].token = hist.blocks[result[p].k].record
            /\ hist.blocks[result[p].k].file = result[p].file
            /\ result[p].err = "" => result[p].meta.DataMapJson = result[p].token
            /\ result[p].err = "" <=> result[p].token = RecordFor(result[p].file, TRUE)

\* The first call ended with a decode failure, the second one, of another
\* caller and for another file, got its own record.
C19_Witness ==
    \E p, q \in Callers :
        /\ result[p].op = "ReadMetadata" /\ result[p].k = 1
        /\ result[p].err = ErrUnmarshal
        /\ result[q].op = "ReadMetadata" /\ result[q].k = 2
        /\ result[q].file # result[p].file
        /\ result[q].err = ""
        /\ result[q].meta.DataMapJson = RecordFor(result[q].file, TRUE)

(***************************************************************************)
(* Properties of the framing function (SpecFraming).                       *)
(***************************************************************************)
\* The ready token occurs in d exactly once, as d's last bytes.
OnceAtEnd(d) ==
    \A i \in 0..Len(d) : OccursAt(d, readyToken, i) <=> i = Len(d) - Len(readyToken)

\* The first occurrence of the ready token in s is at offset i.
FirstTokenAt(s, i) ==
    /\ OccursAt(s, readyToken, i)
    /\ \A j \in 0..(i - 1) : ~OccursAt(s, readyToken, j)

\* C3: on a buffer that contains the ready token, splitReadyToken emits the
\* bytes before the first occurrence of the token, consumes those bytes and
\* the token and nothing more, never emits the token as part of the record,
\* and leaves nothing unconsumed when the token occurs once, at the end.
C3_SplitAtFirstToken ==
    (fr.last.called /\ Contains(fr.last.data, readyToken)) =>
        /\ fr.last.err = ""
        /\ fr.last.hasToken
        /\ fr.last.advance = Len(fr.last.token) + Len(readyToken)
        /\ Take(fr.last.data, fr.last.advance) = fr.last.token \o readyToken
        /\ FirstTokenAt(fr.last.data, Len(fr.last.token))
        /\ ~Contains(fr.last.token, readyToken)
        /\ OnceAtEnd(fr.last.data) => fr.last.advance = Len(fr.last.data)

C3_Witness ==
    /\ fr.last.called
    /\ OnceAtEnd(fr.last.data)
    /\ Len(fr.last.token) > 0
    /\ fr.last.advance = Len(fr.last.data)

\* C4: called before the end of the stream on bytes that do not hold the whole
\* token, splitReadyToken asks for more data (advance 0, no record, no error);
\* when it does emit a record, the record and the bytes consumed are those of
\* the stream taken in one chunk from the same position.
C4_TokenAcrossChunks ==
    /\ (fr.last.called /\ ~fr.last.atEOF /\ ~Contains(fr.last.data, readyToken)) =>
            /\ fr.last.advance = 0
            /\ ~fr.last.hasToken
            /\ fr.last.err = ""
    /\ (fr.last.called /\ fr.last.hasToken /\ fr.last.err = "") =>
            LET whole == Drop(fr.stream, fr.last.base)
            IN  /\ FirstTokenAt(whole, Len(fr.last.token))
                /\ fr.last.token = Take(whole, Len(fr.last.token))
                /\ fr.last.advance = Len(fr.last.token) + Len(readyToken)

\* The chunk boundary fell inside the token: the call before saw its first
\* bytes only, this one found it.
C4_Witness ==
    /\ fr.prev.called /\ ~fr.prev.atEOF /\ ~fr.prev.hasToken /\ fr.prev.err = ""
    /\ fr.last.called /\ fr.last.hasToken /\ fr.last.err = ""
    /\ fr.prev.base = fr.last.base
    /\ Len(fr.prev.data) > Len(fr.last.token)
    /\ Len(fr.prev.data) < fr.last.advance

\* C5: splitReadyToken returns the 'no final token found' error exactly when it
\* is called at the end of the stream on one or more bytes that hold no ready
\* token, never before the end; at the end of the stream with no bytes left it
\* returns no record and no error.
C5_NoFinalTokenOnlyAtEOF ==
    fr.last.called =>
        /\ fr.last.err \in {"", NoFinalToken}
        /\ (fr.last.err = NoFinalToken) <=>
              (fr.last.atEOF /\ Len(fr.last.data) > 0
                  /\ ~Contains(fr.last.data, readyToken))
        /\ (fr.last.atEOF /\ fr.last.data = <<>>) =>
              (~fr.last.hasToken /\ fr.last.err = "" /\ fr.last.advance = 0)

\* The same trailing bytes: no error before the end of the stream, the error
\* at it.
C5_Witness ==
    /\ fr.prev.called /\ ~fr.prev.atEOF /\ fr.prev.err = ""
    /\ fr.last.called /\ fr.last.atEOF /\ fr.last.err = NoFinalToken
    /\ fr.prev.data = fr.last.data
    /\ Len(fr.last.data) > 0

(***************************************************************************)
(* Properties of Parse (SpecParse).                                        *)
(***************************************************************************)
\* The bytes decode as a sequence containing exactly one mapping object.
IsOneObjectArray(b) ==
    LET d == Decode(b)
    IN  /\ d.ok
        /\ d.val.k = "arr"
        /\ Len(d.val.v) = 1
        /\ d.val.v[1].k = "obj"

\* C10: Parse returns a decode error whenever the bytes do not decode as a
\* sequence of exactly one mapping object, succeeds (with element zero as the
\* field map) only for a one-element array, and never crashes.
C10_ParseRejectsWrongShape ==
    pr.n > 0 =>
        /\ ~pr.panic
        /\ (pr.err = "") <=> IsOneObjectArray(pr.input)
        /\ (pr.err = "") =>
              pr.meta.DataMap = [nil |-> FALSE, m |-> MapOf(Decode(pr.input).val.v[1].v)]

\* C18: after every Parse call, successful or failed, the record's raw-JSON
\* field equals the bytes passed to that call.
C18_ParseKeepsRawBytes ==
    pr.n > 0 => pr.meta.DataMapJson = pr.input

(***************************************************************************)
(* Properties of the date accessors (SpecDates).                           *)
(***************************************************************************)
\* The string the record holds for the field, empty when it holds none.
FieldString(meta, key) ==
    IF key \in DOMAIN meta.DataMap.m THEN meta.DataMap.m[key].v ELSE <<>>

BeginsWithNonZeroDigit(val) ==
    val # <<>> /\ val[1] \in {"1", "2", "3", "4", "5", "6", "7", "8", "9"}

\* C13: for a field whose string is empty (or that is absent) or does not
\* begin with a nonzero digit, GetTime returns the zero-date error; a generic
\* parse error is returned only for a value that begins with a digit 1-9.
C13_ZeroDateNotParseError ==
    dt.op = "GetTime" =>
        /\ ~BeginsWithNonZeroDigit(FieldString(dt.meta, dt.key)) =>
              dt.got.err = ZeroDateError
        /\ dt.got.err \notin {"", ZeroDateError} =>
              BeginsWithNonZeroDigit(FieldString(dt.meta, dt.key))
        /\ dt.got.err = ZeroDateError => dt.got.time = ZeroTime

\* GetTime on a field that holds the all-zero placeholder.
C13_Witness ==
    /\ dt.op = "GetTime"
    /\ Len(FieldString(dt.meta, dt.key)) = 7
    /\ FieldString(dt.meta, dt.key)[1] = "0"
    /\ dt.got.err = ZeroDateError

SixCandidateFields ==
    {"CreateDate", "ModifyDate", "DateTimeOriginal", "DateTimeDigitized",
     "GPSDateTime", "FileModifyDate"}

\* The times of the candidate fields GetTime parses.
ParsedCandidates(meta) ==
    {GetTime(meta, k).time : k \in {x \in SixCandidateFields : GetTime(meta, x).err = ""}}

\* The candidate fields (with repetitions told apart) GetTime parses.
ValidCandidates(meta) == {x \in SixCandidateFields : GetTime(meta, x).err = ""}

\* C11: GetEarliestCreationDate looks at the six candidate fields only, skips
\* every candidate GetTime fails on, and returns a value only if it is the
\* earliest of the parsed candidates and its year is after 1970; with no
\* parsed candidate, or an earliest one of year 1970 or before, it prints the
\* source file and raises the fatal condition.
C11_EarliestOfSixOrFatal ==
    dt.op = "GetEarliestCreationDate" =>
        /\ dt.earliest.returned <=>
              /\ ParsedCandidates(dt.meta) # {}
              /\ \A t \in ParsedCandidates(dt.meta) : t.year > 1970
        /\ dt.earliest.returned =>
              /\ dt.earliest.value \in ParsedCandidates(dt.meta)
              /\ \A t \in ParsedCandidates(dt.meta) : ~Before(t, dt.earliest.value)
              /\ dt.earliest.value.year > 1970
              /\ dt.earliest.fatal = ""
              /\ dt.earliest.printed = <<>>
        /\ ~dt.earliest.returned =>
              /\ dt.earliest.fatal = ExifCreationDateNotFoundError
              /\ dt.earliest.printed = <<dt.meta.SourceFile>>

\* The earliest of two parsed candidates is returned: the last field of the
\* list holds it.
C11_Witness ==
    /\ dt.op = "GetEarliestCreationDate"
    /\ dt.earliest.returned
    /\ dt.earliest.value.year = 1995
    /\ GetTime(dt.meta, "FileModifyDate").time = dt.earliest.value
    /\ \E k \in SixCandidateFields : GetTime(dt.meta, k).time.year = 2010

\* C12: with exactly two parsed candidates, one of an epoch year (1970 or
\* before) and one of year 2010, GetEarliestCreationDate returns the value of
\* year 2010.
C12_EpochCandidateFiltered ==
    (/\ dt.op = "GetEarliestCreationDate"
     /\ Cardinality(ValidCandidates(dt.meta)) = 2
     /\ \E a, b \in ValidCandidates(dt.meta) :
            /\ GetTime(dt.meta, a).time.year <= 1970
            /\ GetTime(dt.meta, b).time.year = 2010) =>
        /\ dt.earliest.returned
        /\ dt.earliest.value.year = 2010

=============================================================================
